---- MODULE Spec2Model ----
(***************************************************************************)
(* Model of couchdbkit/ext/django/schema.py: the Options metadata holder,  *)
(* the PKField stand-in, the DocumentMeta metaclass and Document.get_db.   *)
(*                                                                         *)
(* Python strings are TLA+ strings (Len, SubSeq and \o work on them).      *)
(* Python's None is the value None below; an attribute that has not been   *)
(* assigned yet is Unset.  A call's result is a record whose field exc     *)
(* names the exception that left the call ("" when it returned).           *)
(***************************************************************************)
EXTENDS Integers, Sequences, FiniteSets, TLC

VARIABLES
    classes,       \* the classes built by DocumentMeta.__new__, by identity
    options,       \* the Options instances installed as some class's _meta
    registry,      \* loading: the (app label, class) pairs register_schema got
    self,          \* the Options instance under test (SpecOptions, SpecFields)
    cls,           \* the class handed to self.contribute_to_class
    models_ready,  \* django.apps.apps.models_ready
    computes,      \* how often each cached property's body has run on self
    firstDb,       \* history: per class, the first database get_db returned
    last           \* the last operation: its inputs, effects and outcome

vars == <<classes, options, registry, self, cls, models_ready, computes,
         firstDb, last>>

None == "<None>"
Unset == "<unset>"

----------------------------------------------------------------------------
(* Bounds of the model.                                                    *)

MaxClasses == 2      \* classes created besides the root Document class
MaxFields == 3       \* length of local_fields
MaxComputes == 2     \* cap on the cached-property body counters

----------------------------------------------------------------------------
(* Python string and list primitives.                                      *)

CharAt(s, i) == SubSeq(s, i, i)

UPPERCASE == "ABCDEFGHIJKLMNOPQRSTUVWXYZ"
LOWERCASE == "abcdefghijklmnopqrstuvwxyz"

IsUpper(c) == \E i \in 1..Len(UPPERCASE) : CharAt(UPPERCASE, i) = c
IsLower(c) == \E i \in 1..Len(LOWERCASE) : CharAt(LOWERCASE, i) = c

LowerChar(c) ==
    IF IsUpper(c)
    THEN CharAt(LOWERCASE, CHOOSE i \in 1..Len(UPPERCASE) : CharAt(UPPERCASE, i) = c)
    ELSE c

RECURSIVE LowerFrom(_, _)
LowerFrom(s, i) ==
    IF i > Len(s) THEN "" ELSE LowerChar(CharAt(s, i)) \o LowerFrom(s, i + 1)

\* str.lower()
lower(s) == LowerFrom(s, 1)

\* str.strip(), for the blank: what lies between the first and the last
\* character that is not a blank
strip(s) ==
    LET keep == {i \in 1..Len(s) : CharAt(s, i) # " "}
    IN  IF keep = {} THEN ""
        ELSE SubSeq(s, CHOOSE i \in keep : \A j \in keep : i <= j,
                       CHOOSE i \in keep : \A j \in keep : j <= i)

\* str.startswith(prefix)
startswith(s, prefix) ==
    Len(s) >= Len(prefix) /\ SubSeq(s, 1, Len(prefix)) = prefix

\* str.endswith(suffix)
endswith(s, suffix) ==
    Len(s) >= Len(suffix) /\ SubSeq(s, Len(s) - Len(suffix) + 1, Len(s)) = suffix

\* the pieces of s from position start on, the scan being at position i
RECURSIVE SplitFrom(_, _, _, _)
SplitFrom(s, sep, start, i) ==
    IF i > Len(s) THEN <<SubSeq(s, start, Len(s))>>
    ELSE IF CharAt(s, i) = sep
    THEN <<SubSeq(s, start, i - 1)>> \o SplitFrom(s, sep, i + 1, i + 1)
    ELSE SplitFrom(s, sep, start, i + 1)

\* str.split(sep), sep one character
split(s, sep) == SplitFrom(s, sep, 1, 1)

\* list[i] with Python's indices: 0-based, negative ones count from the end
PyIndex(list, i) ==
    LET n == Len(list)
        j == IF i < 0 THEN n + i ELSE i
    IN  IF j < 0 \/ j >= n
        THEN [exc |-> "IndexError", val |-> None]
        ELSE [exc |-> "", val |-> list[j + 1]]

\* dict without key k (dict.pop's effect on the dict)
DictPop(d, k) == [x \in (DOMAIN d) \ {k} |-> d[x]]

\* dict with d[k] = v
DictPut(d, k, v) == [x \in (DOMAIN d) \cup {k} |-> IF x = k THEN v ELSE d[x]]

EmptyDict == [x \in {} |-> None]

\* re.sub('(((?<=[a-z])[A-Z])|([A-Z](?![A-Z]|$)))', ' \\1', s): a blank goes
\* before every capital that follows a lower-case letter or is followed by a
\* character that is not a capital
RECURSIVE CamelSpaces(_, _)
CamelSpaces(s, i) ==
    IF i > Len(s) THEN ""
    ELSE LET c == CharAt(s, i)
             afterLower == i > 1 /\ IsLower(CharAt(s, i - 1))
             beforeOther == i < Len(s) /\ ~IsUpper(CharAt(s, i + 1))
         IN  (IF IsUpper(c) /\ (afterLower \/ beforeOther) THEN " " \o c ELSE c)
                 \o CamelSpaces(s, i + 1)

\* django's get_verbose_name / camel_case_to_spaces
get_verbose_name(class_name) == strip(lower(CamelSpaces(class_name, 1)))

\* django's string_concat
string_concat(a, b) == a \o b

\* re.sub('\.models$', '', module)
StripModels(module) ==
    IF endswith(module, ".models")
    THEN SubSeq(module, 1, Len(module) - Len(".models"))
    ELSE module

\* settings.INSTALLED_APPS
INSTALLED_APPS == {"p.shop"}

----------------------------------------------------------------------------
(* class Meta.  own is the class's own __dict__, inh the attributes it     *)
(* gets from its bases; NoMeta is the absent Meta (None).                  *)

NoMeta == [isNone |-> TRUE, own |-> EmptyDict, inh |-> EmptyDict]

MkMeta(own, inh) == [isNone |-> FALSE, own |-> own, inh |-> inh]

\* hasattr(meta, a)
MetaHasAttr(meta, a) ==
    ~meta.isNone /\ (a \in DOMAIN meta.own \/ a \in DOMAIN meta.inh)

\* getattr(meta, a, default)
MetaGetAttr(meta, a, default) ==
    IF meta.isNone THEN default
    ELSE IF a \in DOMAIN meta.own THEN meta.own[a]
    ELSE IF a \in DOMAIN meta.inh THEN meta.inh[a]
    ELSE default

----------------------------------------------------------------------------
(* PKField and Options.                                                    *)

DEFAULT_NAMES == <<"verbose_name", "db_table", "ordering", "app_label">>

NoField == [id |-> 0, name |-> "", attname |-> ""]

PKFieldShared(addr) == [id |-> 1, name |-> "pk", attname |-> "pk"]

\* PKField(): a new object at address addr, with the class attributes
PKField(addr) == [id |-> addr, name |-> "pk", attname |-> "pk"]

\* Options.__init__; id is the new instance's identity
Options__init__(id, meta, app_label) ==
    [ id |-> id,
      module_name |-> None, verbose_name |-> None,
      verbose_name_plural |-> None,
      object_name |-> None, app_label |-> app_label,
      meta |-> meta, hasMeta |-> TRUE,
      local_fields |-> <<>>,
      concrete_model |-> 0,
      db_table |-> "",
      ordering |-> Unset, installed |-> Unset, model |-> 0, pk |-> NoField,
      cache |-> EmptyDict ]

\* the loop over DEFAULT_NAMES, from its i-th name on; st = [o, meta_attrs]
RECURSIVE ApplyDefaultNames(_, _)
ApplyDefaultNames(st, i) ==
    IF i > Len(DEFAULT_NAMES) THEN st
    ELSE LET attr_name == DEFAULT_NAMES[i]
             o == st.o
         IN  IF attr_name \in DOMAIN st.meta_attrs
             THEN ApplyDefaultNames(
                      [o |-> [o EXCEPT ![attr_name] = st.meta_attrs[attr_name]],
                       meta_attrs |-> DictPop(st.meta_attrs, attr_name)], i + 1)
             ELSE IF MetaHasAttr(o.meta, attr_name)
             THEN ApplyDefaultNames(
                      [o |-> [o EXCEPT ![attr_name] = MetaGetAttr(o.meta, attr_name, None)],
                       meta_attrs |-> st.meta_attrs], i + 1)
             ELSE ApplyDefaultNames(st, i + 1)

PublicAttrsAll(d) == d

\* the private names are dropped from the copy of Meta's __dict__
PublicAttrs(d) == [x \in {a \in DOMAIN d : ~startswith(a, "_")} |-> d[x]]

\* Options.contribute_to_class(cls, name): the Options and the class as the
\* call leaves them, and the exception that left it
contribute_to_class(o, c, name) ==
    LET c1 == [c EXCEPT !._meta = o.id]
        o1 == [o EXCEPT !.pk = PKField(o.id),
                        !.installed = StripModels(c.__module__) \in INSTALLED_APPS,
                        !.object_name = c.__name__,
                        !.module_name = lower(c.__name__),
                        !.verbose_name = get_verbose_name(c.__name__),
                        !.model = c.id,
                        !.concrete_model = c.id]
    IN  IF ~o1.meta.isNone
        THEN LET st == ApplyDefaultNames(
                           [o |-> o1, meta_attrs |-> PublicAttrs(o1.meta.own)], 1)
                 plural == IF "verbose_name_plural" \in DOMAIN st.meta_attrs
                           THEN st.meta_attrs["verbose_name_plural"]
                           ELSE string_concat(st.o.verbose_name, "s")
                 o2 == [st.o EXCEPT !.verbose_name_plural = plural]
                 left == DictPop(st.meta_attrs, "verbose_name_plural")
             IN  IF left # EmptyDict
                 THEN [exc |-> "TypeError", o |-> o2, c |-> c1]
                 ELSE [exc |-> "",
                       o |-> [o2 EXCEPT !.meta = NoMeta, !.hasMeta = FALSE],
                       c |-> c1]
        ELSE [exc |-> "",
              o |-> [o1 EXCEPT !.verbose_name_plural =
                                   string_concat(o1.verbose_name, "s"),
                               !.meta = NoMeta, !.hasMeta = FALSE],
              c |-> c1]

----------------------------------------------------------------------------
(* Inputs.                                                                 *)

Names == {"Ab", "ab", "AbC", "ABc"}
Modules == {"m", "p.shop.models"}

\* the value a Meta, or a base of it, gives attribute a
OwnValue(a) == "own " \o a
InhValue(a) == "base " \o a

OwnAttrs == {"verbose_name", "verbose_name_plural", "app_label", "db_table",
             "ordering", "unique_together", "_rev"}
InhAttrs == {"verbose_name", "verbose_name_plural", "app_label", "unique_together"}

\* every class body's __dict__ holds __module__
MetaOf(ownNames, inhNames) ==
    MkMeta([a \in ownNames \cup {"__module__"} |->
                IF a = "__module__" THEN "p.shop.models" ELSE OwnValue(a)],
           [a \in inhNames |-> InhValue(a)])

Metas == {NoMeta} \cup
         {MetaOf(ownNames, inhNames) :
              ownNames \in SUBSET OwnAttrs, inhNames \in SUBSET InhAttrs}

----------------------------------------------------------------------------
(* The classes.  A class is [id, __name__, __module__, base, Meta, _meta,  *)
(* _db]: base is its parent built by DocumentMeta (0 when every base is a  *)
(* plain class), Meta, _meta and _db are the entries of its own __dict__   *)
(* (NoMeta, 0 and None when it has none).                                  *)

NewClass(id, name, base, attrs) ==
    [ id |-> id, __name__ |-> name, __module__ |-> attrs.__module__,
      base |-> base, Meta |-> attrs.Meta, _meta |-> 0, _db |-> None ]

\* getattr(cls, 'Meta', None), along the bases
RECURSIVE ClassMeta(_, _)
ClassMeta(cs, c) ==
    IF c = 0 THEN NoMeta
    ELSE IF ~cs[c].Meta.isNone THEN cs[c].Meta
    ELSE ClassMeta(cs, cs[c].base)

\* getattr(cls, '_db', None), along the bases
RECURSIVE ClassDb(_, _)
ClassDb(cs, c) ==
    IF c = 0 THEN None
    ELSE IF cs[c]._db # None THEN cs[c]._db
    ELSE ClassDb(cs, cs[c].base)

\* cls._meta, along the bases (0: AttributeError)
RECURSIVE ClassOptions(_, _)
ClassOptions(cs, c) ==
    IF c = 0 THEN 0
    ELSE IF cs[c]._meta # 0 THEN cs[c]._meta
    ELSE ClassOptions(cs, cs[c].base)

----------------------------------------------------------------------------
(* couchdbkit.ext.django.loading: the per-app-label registry and the       *)
(* databases.                                                              *)

\* register_schema(app_label, cls): cls is registered under app_label
register_schema(reg, app_label, c) == reg \cup {<<app_label, c>>}

\* get_schema(app_label, name): the class last registered under app_label
\* with that name (0 when there is none)
get_schema(reg, cs, app_label, name) ==
    LET found == {c \in 1..Len(cs) :
                      <<app_label, c>> \in reg /\ lower(cs[c].__name__) = lower(name)}
    IN  IF found = {} THEN 0 ELSE CHOOSE c \in found : \A d \in found : d <= c

\* get_db(app_label): the database configured for the label; no label, no
\* database
loading_get_db(app_label) ==
    IF app_label = None
    THEN [exc |-> "KeyError", val |-> None]
    ELSE [exc |-> "", val |-> "db:" \o app_label]

----------------------------------------------------------------------------
(* DocumentMeta.                                                           *)

\* DocumentMeta.add_to_class(cls, name, value), for value an Options (the
\* only value __new__ passes, and it has contribute_to_class)
add_to_class(c, name, value) == contribute_to_class(value, c, name)

\* parents = [b for b in bases if isinstance(b, DocumentMeta)]; a base that
\* is a plain class is written 0
ParentsAll(bases) == bases

Parents(bases) == SelectSeq(bases, LAMBDA b : b # 0)

\* the Meta __new__ uses: the class body's, else the one on the new class
EffectiveMeta(cs, base, attr_meta) ==
    IF attr_meta.isNone THEN ClassMeta(cs, base) ELSE attr_meta

ResolveAppLabelLast(meta, module) ==
    IF MetaGetAttr(meta, "app_label", None) = None
    THEN PyIndex(split(module, "."), -1)
    ELSE [exc |-> "", val |-> MetaGetAttr(meta, "app_label", None)]

\* the app label __new__ resolves for a class of that module and Meta
ResolveAppLabel(meta, module) ==
    IF MetaGetAttr(meta, "app_label", None) = None
    THEN PyIndex(split(module, "."), -2)
    ELSE [exc |-> "", val |-> MetaGetAttr(meta, "app_label", None)]

\* what a call of __new__ that keeps no class leaves behind
NoEffects(cs, os, reg) ==
    [ classes |-> cs, options |-> os, registry |-> reg,
      built |-> 0, installed |-> 0, regCalls |-> <<>>, getCalls |-> <<>>,
      app_label |-> None, ret |-> 0, exc |-> "" ]

InstallAndRegisterEarly(cs, os, reg, new_class, name, meta, app_label) ==
    LET o == Options__init__(Len(os) + 1, meta, app_label)
        reg1 == register_schema(reg, app_label, new_class.id)
        r == add_to_class(new_class, "_meta", o)
        built == [NoEffects(cs, os, reg1) EXCEPT !.built = 1,
                                                 !.installed = r.c._meta,
                                                 !.app_label = app_label,
                                                 !.regCalls = <<<<app_label, new_class.id>>>>]
    IN  IF r.exc # ""
        THEN [built EXCEPT !.exc = r.exc]
        ELSE [built EXCEPT
                 !.classes = Append(cs, r.c),
                 !.options = Append(os, r.o),
                 !.getCalls = <<<<app_label, name>>>>,
                 !.ret = get_schema(reg1, Append(cs, r.c), app_label, name)]

\* the end of __new__: the Options is built and added to the class, the
\* class is registered and looked up again
InstallAndRegister(cs, os, reg, new_class, name, meta, app_label) ==
    LET o == Options__init__(Len(os) + 1, meta, app_label)
        r == add_to_class(new_class, "_meta", o)
        built == [NoEffects(cs, os, reg) EXCEPT !.built = 1,
                                                !.installed = r.c._meta,
                                                !.app_label = app_label]
        cs1 == Append(cs, r.c)
        reg1 == register_schema(reg, app_label, new_class.id)
    IN  IF r.exc # ""
        THEN [built EXCEPT !.exc = r.exc]
        ELSE [built EXCEPT
                 !.classes = cs1,
                 !.options = Append(os, r.o),
                 !.registry = reg1,
                 !.regCalls = <<<<app_label, new_class.id>>>>,
                 !.getCalls = <<<<app_label, name>>>>,
                 !.ret = get_schema(reg1, cs1, app_label, name)]

\* DocumentMeta.__new__(cls, name, bases, attrs).  The result gives the
\* classes, Options and registry after the call, the number of Options it
\* built, the Options it installed as _meta, its calls of register_schema and
\* get_schema, the class it returned and the exception that left it.  A
\* class whose creation raised is referenced by nothing and is not kept.
DocumentMeta__new__(cs, os, reg, name, bases, attrs) ==
    LET parents == Parents(bases)
        base == IF Parents(bases) = <<>> THEN 0 ELSE Head(Parents(bases))
        new_class == NewClass(Len(cs) + 1, name, base, attrs)
        none == NoEffects(cs, os, reg)
    IN  IF parents = <<>>
        THEN [none EXCEPT !.classes = Append(cs, new_class),
                          !.ret = new_class.id]
        ELSE LET meta == EffectiveMeta(cs, base, attrs.Meta)
                 label == ResolveAppLabel(meta, new_class.__module__)
             IN  IF label.exc # ""
                 THEN [none EXCEPT !.exc = label.exc]
                 ELSE InstallAndRegister(cs, os, reg, new_class, name, meta,
                                         label.val)

----------------------------------------------------------------------------
(* Document.get_db and PKField.to_python.                                  *)

\* Document.get_db(cls): the classes after the call, the value returned, the
\* labels loading.get_db was called with and the exception that left the call
Document_get_db(cs, os, c) ==
    LET db == ClassDb(cs, c)
        none == [classes |-> cs, val |-> None, dbCalls |-> <<>>]
    IN  IF db = None
        THEN IF ClassOptions(cs, c) = 0
             THEN none @@ [exc |-> "AttributeError"]
             ELSE LET app_label == os[ClassOptions(cs, c)].app_label
                      r == loading_get_db(app_label)
                  IN  IF r.exc # ""
                      THEN [none EXCEPT !.dbCalls = <<app_label>>] @@ [exc |-> r.exc]
                      ELSE [classes |-> [cs EXCEPT ![c]._db = r.val],
                            val |-> r.val, dbCalls |-> <<app_label>>,
                            exc |-> ""]
        ELSE [none EXCEPT !.val = db] @@ [exc |-> ""]

DIGITS == "0123456789"

\* str(n) for an integer n
RECURSIVE IntStr(_)
IntStr(n) ==
    IF n < 0 THEN "-" \o IntStr(0 - n)
    ELSE IF n < 10 THEN CharAt(DIGITS, n + 1)
    ELSE IntStr(n \div 10) \o CharAt(DIGITS, (n % 10) + 1)

\* str(value): value is [t |-> "int", v |-> n] or [t |-> "str", v |-> s]
str(value) == IF value.t = "int" THEN IntStr(value.v) ELSE value.v

\* PKField.to_python(value)
to_python(value) == str(value)

----------------------------------------------------------------------------
(* The field maps of an Options.  A field is an object of FieldObj, known  *)
(* by its identity; attname = Unset is a field without that attribute.     *)

FieldObj ==
    <<[name |-> "x",    attname |-> "x_id", many_to_many |-> FALSE],
      [name |-> "y",    attname |-> Unset,  many_to_many |-> TRUE],
      [name |-> "x_id", attname |-> "x_id", many_to_many |-> FALSE],
      [name |-> "tags", attname |-> "tags", many_to_many |-> TRUE]>>

FieldIds == DOMAIN FieldObj
FieldNames == {"x", "y", "x_id", "tags", "zz"}

PyTrue == "True"
PyFalse == "False"

\* Options._get_fields(**_)
_get_fields(o) == o.local_fields

\* the loop of _forward_fields_map and of fields_map over fields, from the
\* i-th on
RECURSIVE FillMap(_, _, _)
FillMap(res, fields, i) ==
    IF i > Len(fields) THEN res
    ELSE LET field == fields[i]
             res1 == DictPut(res, FieldObj[field].name, field)
             res2 == IF FieldObj[field].attname = Unset
                     THEN res1      \* AttributeError, passed over
                     ELSE DictPut(res1, FieldObj[field].attname, field)
         IN  FillMap(res2, fields, i + 1)

\* the body of Options._forward_fields_map
_forward_fields_map(o) == FillMap(EmptyDict, _get_fields(o), 1)

\* the body of Options.fields_map
fields_map(o) == FillMap(EmptyDict, _get_fields(o), 1)

PlainProperty(o, prop, value) == [o |-> o, val |-> value, ran |-> TRUE]

\* django's cached_property: reading attribute prop of o runs the body once
\* and keeps its value in the instance's __dict__
cached_property(o, prop, value) ==
    IF prop \in DOMAIN o.cache
    THEN [o |-> o, val |-> o.cache[prop], ran |-> FALSE]
    ELSE [o |-> [o EXCEPT !.cache = DictPut(o.cache, prop, value)],
          val |-> value, ran |-> TRUE]

Get_forward_fields_map(o) ==
    cached_property(o, "_forward_fields_map", _forward_fields_map(o))

Get_fields_map(o) == cached_property(o, "fields_map", fields_map(o))

\* d[k]
DictGet(d, k) ==
    IF k \in DOMAIN d THEN [exc |-> "", val |-> d[k]]
    ELSE [exc |-> "KeyError", val |-> 0]

NoExcept(r, handler) == r

\* try: r  except KeyError: handler
ExceptKeyError(r, handler) == IF r.exc = "KeyError" THEN handler ELSE r

Raise(o, exc, ran) == [o |-> o, exc |-> exc, val |-> 0, ran |-> ran]

\* Options.get_field(field_name, many_to_many): the Options after the call,
\* the field returned, the exception that left the call and the cached
\* properties whose body ran
get_field(o, ready, field_name, many_to_many) ==
    LET m2m_in_kwargs == many_to_many # None
        a1 == Get_forward_fields_map(o)
        ran1 == IF a1.ran THEN {"_forward_fields_map"} ELSE {}
        look1 == DictGet(a1.val, field_name)
        try1 == IF look1.exc # ""
                THEN Raise(a1.o, look1.exc, ran1)
                ELSE IF many_to_many = PyFalse /\ FieldObj[look1.val].many_to_many
                THEN Raise(a1.o, "FieldDoesNotExist", ran1)
                ELSE [o |-> a1.o, exc |-> "", val |-> look1.val, ran |-> ran1]
        a2 == Get_fields_map(a1.o)
        ran2 == IF a2.ran THEN ran1 \cup {"fields_map"} ELSE ran1
        look2 == DictGet(a2.val, field_name)
        try2 == IF m2m_in_kwargs
                THEN Raise(a1.o, "FieldDoesNotExist", ran1)
                ELSE IF look2.exc # ""
                THEN Raise(a2.o, look2.exc, ran2)
                ELSE [o |-> a2.o, exc |-> "", val |-> look2.val, ran |-> ran2]
    IN  ExceptKeyError(try1,
            IF ~ready
            THEN Raise(a1.o, "FieldDoesNotExist", ran1)
            ELSE ExceptKeyError(try2,
                     Raise(try2.o, "FieldDoesNotExist", try2.ran)))

----------------------------------------------------------------------------
(* The state when schema.py starts to run: no class exists, nothing is     *)
(* registered.                                                             *)

NoComputes ==
    [prop \in {"_forward_fields_map", "fields_map"} |-> [n |-> 0, len |-> 0]]

InitClasses ==
    /\ classes = <<>>
    /\ options = <<>>
    /\ registry = {}
    /\ firstDb = EmptyDict

InitOptions ==
    /\ self = Options__init__(1, NoMeta, None)
    /\ cls = NewClass(1, "Ab", 0, [__module__ |-> "m", Meta |-> NoMeta])
    /\ models_ready = FALSE
    /\ computes = NoComputes

Init ==
    /\ InitClasses
    /\ InitOptions
    /\ last = [op |-> "start"]

----------------------------------------------------------------------------
(* Spec: class statements, get_db and to_python calls.                     *)

ClassNames == {"Ab"}
AppLabels == {"z"}

ClassMetas ==
    {NoMeta,
     MetaOf({"unique_together"}, {}),
     MetaOf({}, {"app_label"})}
    \cup {MkMeta([a \in {"__module__", "app_label"} |->
                      IF a = "__module__" THEN "p.shop.models" ELSE l],
                 EmptyDict) : l \in AppLabels \cup {None}}

Values == <<[t |-> "int", v |-> 120], [t |-> "int", v |-> -35],
           [t |-> "str", v |-> "a1"]>>

\* a class statement: class name(bases): Meta = meta, in module module.
\* schema.py's own statement, class Document(schema.Document), is the
\* first one and has no base built by DocumentMeta (base = 0); every later
\* class has one.
CreateClass(name, base, module, meta) ==
    /\ Len(classes) < MaxClasses + 1
    /\ (base = 0) = (classes = <<>>)
    /\ \E r \in {DocumentMeta__new__(classes, options, registry, name, <<base>>,
                                    [__module__ |-> module, Meta |-> meta])} :
           /\ classes' = r.classes
           /\ options' = r.options
           /\ registry' = r.registry
           /\ last' = [op |-> "create", base |-> base, module |-> module,
                       Meta |-> meta, exc |-> r.exc, built |-> r.built,
                       installed |-> r.installed, regCalls |-> r.regCalls,
                       getCalls |-> r.getCalls, app_label |-> r.app_label,
                       ret |-> r.ret, before |-> registry]
    /\ UNCHANGED <<self, cls, models_ready, computes, firstDb>>

\* c.get_db()
GetDb(c) ==
    /\ \E r \in {Document_get_db(classes, options, c)} :
           /\ classes' = r.classes
           /\ firstDb' = IF r.exc = "" /\ c \notin DOMAIN firstDb
                         THEN DictPut(firstDb, c, r.val)
                         ELSE firstDb
           /\ last' = [op |-> "get_db", cls |-> c, exc |-> r.exc,
                       val |-> r.val, dbCalls |-> r.dbCalls,
                       hadFirst |-> c \in DOMAIN firstDb]
    /\ UNCHANGED <<options, registry, self, cls, models_ready, computes>>

\* cls._meta.pk.to_python(value)
ToPython(value) ==
    /\ last' = [op |-> "to_python", value |-> value, val |-> to_python(value)]
    /\ UNCHANGED <<classes, options, registry, self, cls, models_ready,
                   computes, firstDb>>

Next ==
    \/ CreateClass("Document", 0, "couchdbkit.ext.django.schema", NoMeta)
    \/ \E name \in ClassNames, base \in 1..Len(classes), module \in Modules,
          meta \in ClassMetas :
           CreateClass(name, base, module, meta)
    \/ \E c \in 1..Len(classes) : GetDb(c)
    \/ \E i \in DOMAIN Values : ToPython(Values[i])

Spec == Init /\ [][Next]_vars

----------------------------------------------------------------------------
(* SpecOptions: one Options, built for any Meta, contributes to one class. *)

InitContribute ==
    /\ InitClasses
    /\ \E meta \in Metas, name \in Names, module \in Modules :
           /\ self = Options__init__(1, meta, "z")
           /\ cls = NewClass(1, name, 0, [__module__ |-> module, Meta |-> meta])
    /\ models_ready = FALSE
    /\ computes = NoComputes
    /\ last = [op |-> "Options", meta |-> self.meta]

\* self.contribute_to_class(cls, '_meta')
ContributeToClass ==
    /\ last.op = "Options"
    /\ \E r \in {contribute_to_class(self, cls, "_meta")} :
           /\ self' = r.o
           /\ cls' = r.c
           /\ last' = [op |-> "contribute_to_class", meta |-> self.meta,
                       exc |-> r.exc]
    /\ UNCHANGED <<classes, options, registry, models_ready, computes, firstDb>>

NextOptions == ContributeToClass

SpecOptions == InitContribute /\ [][NextOptions]_vars

----------------------------------------------------------------------------
(* SpecFields: the field maps of one Options while local_fields fills and  *)
(* the app registry gets ready.                                            *)

M2MArgs == {None, PyTrue, PyFalse}

Ran(prop, len) == [computes EXCEPT ![prop] = [n |-> @.n + 1, len |-> len]]

\* the model's metaclass puts a field into local_fields
AppendField(f) ==
    /\ Len(self.local_fields) < MaxFields
    /\ \A i \in 1..Len(self.local_fields) : self.local_fields[i] # f
    /\ self' = [self EXCEPT !.local_fields = Append(@, f)]
    /\ last' = [op |-> "append", field |-> f]
    /\ UNCHANGED <<classes, options, registry, cls, models_ready, computes, firstDb>>

\* apps.populate() ends
AppsReady ==
    /\ ~models_ready
    /\ models_ready' = TRUE
    /\ last' = [op |-> "ready"]
    /\ UNCHANGED <<classes, options, registry, self, cls, computes, firstDb>>

\* a read of self._forward_fields_map
ReadForwardFieldsMap ==
    /\ computes["_forward_fields_map"].n < MaxComputes
    /\ \E r \in {Get_forward_fields_map(self)} :
           /\ self' = r.o
           /\ computes' = IF r.ran
                          THEN Ran("_forward_fields_map", Len(self.local_fields))
                          ELSE computes
           /\ last' = [op |-> "_forward_fields_map", val |-> r.val]
    /\ UNCHANGED <<classes, options, registry, cls, models_ready, firstDb>>

\* a read of self.fields_map
ReadFieldsMap ==
    /\ computes["fields_map"].n < MaxComputes
    /\ \E r \in {Get_fields_map(self)} :
           /\ self' = r.o
           /\ computes' = IF r.ran
                          THEN Ran("fields_map", Len(self.local_fields))
                          ELSE computes
           /\ last' = [op |-> "fields_map", val |-> r.val]
    /\ UNCHANGED <<classes, options, registry, cls, models_ready, firstDb>>

\* self.get_field(field_name, many_to_many)
GetField(field_name, many_to_many) ==
    /\ \A prop \in DOMAIN computes : computes[prop].n < MaxComputes
    /\ \E r \in {get_field(self, models_ready, field_name, many_to_many)},
          len \in {Len(self.local_fields)} :
           /\ self' = r.o
           /\ computes' =
                  [prop \in DOMAIN computes |->
                       IF prop \in r.ran
                       THEN [n |-> computes[prop].n + 1, len |-> len]
                       ELSE computes[prop]]
           /\ last' = [op |-> "get_field", field_name |-> field_name,
                       many_to_many |-> many_to_many, exc |-> r.exc,
                       val |-> r.val, ready |-> models_ready,
                       cached |-> DOMAIN self.cache,
                       forward |-> IF "_forward_fields_map" \in DOMAIN r.o.cache
                                   THEN r.o.cache["_forward_fields_map"]
                                   ELSE EmptyDict]
    /\ UNCHANGED <<classes, options, registry, cls, models_ready, firstDb>>

NextFields ==
    \/ \E f \in FieldIds : AppendField(f)
    \/ AppsReady
    \/ ReadForwardFieldsMap
    \/ ReadFieldsMap
    \/ \E field_name \in FieldNames, many_to_many \in M2MArgs :
           GetField(field_name, many_to_many)

SpecFields == Init /\ [][NextFields]_vars

----------------------------------------------------------------------------
(* The claims.                                                             *)

IsCreate == last.op = "create"
HasParent == last.base # 0

\* the class a successful creation added, and its Options
NewId == Len(classes)
NewOptions == Len(options)

\* C1, as stated: every creation of a class with a base built by DocumentMeta
\* builds exactly one Options, installs it as the class's _meta and calls
\* register_schema exactly once with the resolved label and the new class;
\* the creation of the root class builds no Options and registers nothing.
C1_AsStated ==
    IsCreate =>
        IF HasParent
        THEN /\ last.built = 1
             /\ last.installed # 0
             /\ Len(last.regCalls) = 1
             /\ last.regCalls[1][1] = last.app_label
        ELSE /\ last.built = 0
             /\ last.regCalls = <<>>
             /\ registry = last.before

\* C1, amended: a creation with a base built by DocumentMeta that raises
\* nothing builds exactly one Options, installs it as the new class's _meta
\* and calls register_schema exactly once, with the resolved label and the new
\* class; one that raises TypeError has built and installed one Options and
\* registered nothing, one that raises IndexError has built and registered
\* nothing; the root class gets no Options and nothing is registered.  The
\* classes with an Options are the classes with such a base, one Options each.
C1_Amended ==
    /\ IsCreate /\ HasParent /\ last.exc = "" =>
           /\ last.built = 1
           /\ last.installed = NewOptions
           /\ classes[NewId]._meta = NewOptions
           /\ options[NewOptions].id = NewOptions
           /\ last.regCalls = <<<<last.app_label, NewId>>>>
           /\ registry = last.before \cup {<<last.app_label, NewId>>}
    /\ IsCreate /\ HasParent /\ last.exc = "TypeError" =>
           /\ last.built = 1
           /\ last.installed # 0
           /\ last.regCalls = <<>>
           /\ registry = last.before
    /\ IsCreate /\ HasParent /\ last.exc = "IndexError" =>
           /\ last.built = 0
           /\ last.regCalls = <<>>
           /\ registry = last.before
    /\ IsCreate /\ ~HasParent =>
           /\ last.exc = ""
           /\ last.built = 0
           /\ last.regCalls = <<>>
           /\ registry = last.before
           /\ classes[NewId]._meta = 0
    /\ IsCreate => last.exc \in {"", "TypeError", "IndexError"}
    /\ \A c \in 1..Len(classes) : (classes[c]._meta # 0) = (classes[c].base # 0)
    /\ \A c, d \in 1..Len(classes) :
           classes[c]._meta # 0 /\ classes[c]._meta = classes[d]._meta => c = d
    /\ Len(options) = Cardinality({c \in 1..Len(classes) : classes[c].base # 0})

\* a third class is created, with a parent, and is registered
C1_Witness ==
    /\ IsCreate /\ HasParent /\ last.exc = ""
    /\ Len(classes) = 3
    /\ Cardinality(registry) = 2

\* the second-to-last dot-separated component of a module name (None when
\* the name has a single component)
SecondToLast(module) ==
    LET comps == split(module, ".")
    IN  IF Len(comps) >= 2 THEN comps[Len(comps) - 1] ELSE None

\* the Meta in effect at the last creation: the class body's, else the one
\* of the nearest base that has one
LastMeta ==
    IF ~last.Meta.isNone THEN last.Meta ELSE ClassMeta(classes, last.base)

\* C2, as stated: the label is the effective Meta's app_label when that is
\* not None, and otherwise the second-to-last component of the module name,
\* for every module name.
C2_AsStated ==
    IsCreate /\ HasParent =>
        /\ last.exc # "IndexError"
        /\ last.app_label =
               IF MetaGetAttr(LastMeta, "app_label", None) # None
               THEN MetaGetAttr(LastMeta, "app_label", None)
               ELSE SecondToLast(last.module)

\* C2, amended: the label is the effective Meta's app_label when that is not
\* None; otherwise it is the second-to-last component of the module name when
\* the name has two components or more, and when it has one the creation
\* raises IndexError before an Options is built or a class registered.
C2_Amended ==
    IsCreate /\ HasParent =>
        IF MetaGetAttr(LastMeta, "app_label", None) # None
        THEN /\ last.exc # "IndexError"
             /\ last.app_label = MetaGetAttr(LastMeta, "app_label", None)
        ELSE IF Len(split(last.module, ".")) >= 2
        THEN /\ last.exc # "IndexError"
             /\ last.app_label = SecondToLast(last.module)
        ELSE /\ last.exc = "IndexError"
             /\ last.built = 0
             /\ last.regCalls = <<>>
             /\ registry = last.before

\* a class without a Meta of its own, in a module of three components, takes
\* the label from the module although its grandparent's Meta is inherited
C2_Witness ==
    /\ IsCreate /\ HasParent /\ last.exc = ""
    /\ last.Meta.isNone /\ ~LastMeta.isNone
    /\ MetaGetAttr(LastMeta, "app_label", None) = None
    /\ last.module = "p.shop.models"
    /\ last.app_label = "shop"

ValidNames ==
    {"verbose_name", "db_table", "ordering", "app_label", "verbose_name_plural"}

\* C3: contribute_to_class raises TypeError exactly when there is a Meta whose
\* own dictionary has a name that does not start with '_' and is none of
\* verbose_name, db_table, ordering, app_label, verbose_name_plural.
C3_MetaValidation ==
    last.op = "contribute_to_class" =>
        ( (last.exc = "TypeError") <=>
              /\ ~last.meta.isNone
              /\ \E a \in DOMAIN last.meta.own :
                     CharAt(a, 1) # "_" /\ a \notin ValidNames )

\* a Meta with private names and a name that is not valid is refused
C3_Witness ==
    /\ last.op = "contribute_to_class"
    /\ last.exc = "TypeError"
    /\ {"_rev", "__module__", "unique_together", "ordering"} \subseteq DOMAIN last.meta.own

\* C4, as stated: object_name is the class name, module_name its lower case,
\* verbose_name is Meta's verbose_name when Meta has one and otherwise
\* get_verbose_name(class name), verbose_name_plural is Meta's
\* verbose_name_plural when Meta has one and otherwise verbose_name + 's'.
C4_AsStated ==
    last.op = "contribute_to_class" =>
        /\ self.object_name = cls.__name__
        /\ self.module_name = lower(cls.__name__)
        /\ self.verbose_name =
               IF MetaHasAttr(last.meta, "verbose_name")
               THEN MetaGetAttr(last.meta, "verbose_name", None)
               ELSE get_verbose_name(cls.__name__)
        /\ self.verbose_name_plural =
               IF MetaHasAttr(last.meta, "verbose_name_plural")
               THEN MetaGetAttr(last.meta, "verbose_name_plural", None)
               ELSE self.verbose_name \o "s"

Props == {"_forward_fields_map", "fields_map"}

\* the fields put into local_fields after the map of prop was computed
AppendedAfter(prop) ==
    {self.local_fields[i] : i \in (computes[prop].len + 1)..Len(self.local_fields)}

\* the names a field can be fetched by
KeysOf(f) == {FieldObj[f].name} \cup
             (IF FieldObj[f].attname = Unset THEN {} ELSE {FieldObj[f].attname})

\* the map a cached property's body gives for the first len fields
MapAt(len) == FillMap(EmptyDict, SubSeq(self.local_fields, 1, len), 1)

\* the last operation was a get_field call made when both maps were computed
GetFieldAfterBoth == last.op = "get_field" /\ last.cached = Props

\* C5, its first part: each map is computed at most once, from the
\* local_fields of its first access, every later read gives that map, and no
\* field appended later is in it.
C5_Cached ==
    /\ \A prop \in Props :
           /\ computes[prop].n <= 1
           /\ (prop \in DOMAIN self.cache) = (computes[prop].n = 1)
           /\ prop \in DOMAIN self.cache =>
                  /\ self.cache[prop] = MapAt(computes[prop].len)
                  /\ \A k \in DOMAIN self.cache[prop] :
                         self.cache[prop][k] \notin AppendedAfter(prop)
    /\ last.op \in Props => last.val = self.cache[last.op]

\* the fields put into local_fields after both maps were computed
AppendedAfterBoth ==
    AppendedAfter("_forward_fields_map") \cap AppendedAfter("fields_map")

\* C5, as stated: with that, a get_field call made after both maps were
\* computed raises FieldDoesNotExist for a field appended after they were
\* computed.
C5_AsStated ==
    /\ C5_Cached
    /\ GetFieldAfterBoth =>
           \A f \in AppendedAfterBoth :
               last.field_name \in KeysOf(f) => last.exc = "FieldDoesNotExist"

\* C5, amended: a get_field call made after both maps were computed never
\* returns a field appended after both were computed, and it raises
\* FieldDoesNotExist for the name of such a field unless that name is a key
\* of a map already: the name or attname of a field that was in local_fields
\* when the map was computed.
C5_Amended ==
    /\ C5_Cached
    /\ GetFieldAfterBoth =>
           /\ last.val \notin AppendedAfterBoth
           /\ \A f \in AppendedAfterBoth :
                  /\ last.field_name \in KeysOf(f)
                  /\ \A prop \in Props :
                         last.field_name \notin DOMAIN self.cache[prop]
                  => last.exc = "FieldDoesNotExist"

\* both maps were computed, a field was appended, and get_field raises for
\* its name although the app registry is ready
C5_Witness ==
    /\ GetFieldAfterBoth
    /\ last.ready /\ last.many_to_many = None
    /\ last.exc = "FieldDoesNotExist"
    /\ \E f \in AppendedAfterBoth : last.field_name = FieldObj[f].name

\* C6: get_field returns a field whose name or attname is field_name or
\* raises FieldDoesNotExist, and nothing else; it raises when many_to_many is
\* False and the forward field found is many-to-many, and when the name is no
\* forward field and the app registry is not ready or many_to_many was passed.
C6_GetField ==
    last.op = "get_field" =>
        /\ last.exc \in {"", "FieldDoesNotExist"}
        /\ last.exc = "" =>
               /\ last.val \in FieldIds
               /\ last.field_name \in KeysOf(last.val)
        /\ last.exc # "" => last.val = 0
        /\ (/\ last.many_to_many = PyFalse
            /\ last.field_name \in DOMAIN last.forward
            /\ FieldObj[last.forward[last.field_name]].many_to_many)
           => last.exc = "FieldDoesNotExist"
        /\ (/\ last.field_name \notin DOMAIN last.forward
            /\ (~last.ready \/ last.many_to_many # None))
           => last.exc = "FieldDoesNotExist"

\* the name is in neither map, the app registry is ready and many_to_many was
\* not passed: the second lookup's KeyError became FieldDoesNotExist
C6_Witness ==
    /\ last.op = "get_field"
    /\ last.ready /\ last.many_to_many = None
    /\ last.field_name = "zz"
    /\ Len(self.local_fields) >= 2
    /\ last.exc = "FieldDoesNotExist"

\* the string form of the values to_python is called with
StringForm(value) ==
    IF value.t = "str" THEN value.v
    ELSE IF value.v = 120 THEN "120"
    ELSE IF value.v = -35 THEN "-35"
    ELSE "?"

C8_AsStated ==
    /\ \A c \in 1..Len(classes) :
           classes[c]._meta # 0 =>
               /\ <<options[classes[c]._meta].app_label, c>> \in registry
               /\ \A pair \in registry :
                      pair[2] = c => pair[1] = options[classes[c]._meta].app_label
    /\ IsCreate /\ HasParent /\ last.exc = "" =>
           /\ last.regCalls[1][1] = options[NewOptions].app_label
           /\ last.getCalls[1][1] = options[NewOptions].app_label

\* C9, as stated: a get_db call on a class returns what loading.get_db gives
\* for the label in the class's own Options; once a call on the class has
\* returned a database, later calls on it return that database and do not
\* call loading.get_db.
C9_AsStated ==
    last.op = "get_db" /\ last.exc = "" =>
        /\ last.val = loading_get_db(options[classes[last.cls]._meta].app_label).val
        /\ last.hadFirst =>
               /\ last.val = firstDb[last.cls]
               /\ last.dbCalls = <<>>

\* C10: when contribute_to_class raises TypeError within __new__, no class is
\* registered and the classes, the Options and the registry stay as they were.
C10_FailedCreation ==
    [][ (last'.op = "create" /\ last'.exc = "TypeError") =>
            /\ last'.regCalls = <<>>
            /\ UNCHANGED <<classes, options, registry>> ]_vars

\* a creation fails on its Meta after another class was registered
C10_Witness ==
    /\ IsCreate /\ last.exc = "TypeError"
    /\ last.built = 1
    /\ registry # {}

====
